---- MODULE Spec2Model ----
(***************************************************************************)
(* Model of the front-end support glue of react_frontend_template:         *)
(*   - the fetch-based ApiClient (src/src/setupProxy.js, lines 106-246),   *)
(*   - the development proxy (src/src/setupProxy.js, lines 1-96),          *)
(*   - the environment configuration module (src/unnamed/part_000).        *)
(* Three specifications share the module: Spec (client request life       *)
(* cycle), SpecConfig (configuration start-up) and SpecProxy (proxy).      *)
(***************************************************************************)
EXTENDS Integers, Sequences, FiniteSets, TLC

VARIABLES
    env,        \* client build environment: NODE_ENV, REACT_APP_API_BASE_URL, REACT_APP_API_TIMEOUT
    storage,    \* localStorage as seen by getItem('authToken'): "empty", "token" or "blocked"
    pc,         \* per call: position of ApiClient.request
    req,        \* per call: the request handed to fetch (url, method, body, authorization),
                \* local to the call and gone once the call has settled
    timer,      \* per call: state of the setTimeout armed at line 161
    aborted,    \* per AbortController: signal.aborted
    elapsed,    \* per call: the configured timeout has elapsed since the timer was armed
    response,   \* per call: status line of the Response fetch resolved with
    caught,     \* per call: the value received by the catch clause at line 184
    outcome,    \* per call: how the promise returned to the caller settled
    procEnv,    \* configuration module: the set of environment variables with a non-empty value
    module,     \* configuration module: "unloaded", "loaded" or "failed"
    config,     \* configuration module: the exported config object
    startup,    \* configuration module: result of the start-up sequence
    proxyEnv,   \* proxy: NODE_ENV and REACT_APP_API_BASE_URL of the dev server process
    px          \* per proxied request: its state

clientVars == <<env, storage, pc, req, timer, aborted, elapsed, response, caught, outcome>>
configVars == <<procEnv, module, config, startup>>
proxyVars  == <<proxyEnv, px>>
vars == <<env, storage, pc, req, timer, aborted, elapsed, response, caught, outcome,
          procEnv, module, config, startup, proxyEnv, px>>

(***************************************************************************)
(* Bounds                                                                  *)
(***************************************************************************)
NumCalls == 2
Calls == 1..NumCalls

(***************************************************************************)
(* Throwables and results of the client                                    *)
(***************************************************************************)
NoStatus == 0 - 1

Throwable(cls, name, message) ==
    [cls |-> cls, name |-> name, message |-> message,
     status |-> NoStatus, statusText |-> "", data |-> "null"]

\* class ApiError extends Error, lines 234-243
MkApiError(status, statusText, data) ==
    [cls |-> "ApiError", name |-> "ApiError",
     message |-> "API Error " \o ToString(status) \o ": " \o statusText,
     status |-> status, statusText |-> statusText, data |-> data]

NoError == Throwable("none", "", "")

\* what fetch rejects with when controller.abort() is called
AbortError == Throwable("DOMException", "AbortError", "The user aborted a request.")
\* what fetch rejects with on a network failure
NetworkError == Throwable("TypeError", "TypeError", "Failed to fetch")
\* a rejection value that is not an Error instance, though it carries the name
\* 'AbortError' (a patched or mocked fetch rejecting with a plain object)
NonErrorAbort == Throwable("object", "AbortError", "")
\* what response.json() rejects with on a body that is not JSON
SyntaxErr == Throwable("SyntaxError", "SyntaxError", "Unexpected token < in JSON")
\* what JSON.stringify throws on a circular structure
CircularErr == Throwable("TypeError", "TypeError", "Converting circular structure to JSON")
\* what localStorage.getItem throws when storage access is denied
SecurityErr == Throwable("DOMException", "SecurityError", "The operation is insecure.")

InstanceOfApiError(e) == e.cls = "ApiError"
InstanceOfError(e) == e.cls \in {"ApiError", "Error", "TypeError", "SyntaxError", "DOMException"}

Pending == [kind |-> "pending", value |-> "", error |-> NoError]
Resolved(v) == [kind |-> "resolved", value |-> v, error |-> NoError]
Rejected(e) == [kind |-> "rejected", value |-> "", error |-> e]

NoResponse == [status |-> NoStatus, statusText |-> ""]
Responses == { [status |-> 200, statusText |-> "OK"],
               [status |-> 204, statusText |-> "No Content"],
               [status |-> 404, statusText |-> "Not Found"] }
\* Response.ok
Ok(r) == r.status >= 200 /\ r.status <= 299

NoRequest == [url |-> "", method |-> "", body |-> "", authorization |-> ""]

(***************************************************************************)
(* Client configuration: getApiConfig, lines 113-126                       *)
(***************************************************************************)
DefaultTimeout == 10000

\* the documented environments of PROXY_GUIDE.md (apiTimeout 0: variable unset)
DevEnv  == [nodeEnv |-> "development", apiBaseUrl |-> "http://localhost:5000", apiTimeout |-> 0]
ProdEnv == [nodeEnv |-> "production", apiBaseUrl |-> "https://api.example.com/api", apiTimeout |-> 5000]
ClientEnvs == {DevEnv, ProdEnv}

getApiConfig(e) ==
    [baseURL |-> IF e.nodeEnv = "development" THEN "" ELSE e.apiBaseUrl,
     timeout |-> IF e.apiTimeout # 0 THEN e.apiTimeout ELSE DefaultTimeout]

\* const url = `${this.config.baseURL}${endpoint}`, line 140
BuildUrl(baseURL, endpoint) == baseURL \o endpoint

Endpoints == {"/api/users"}

\* the payloads handed to post/put/patch: one that serializes and one that does not
Payloads == {"object", "circular"}

\* JSON.stringify(data), lines 208, 216, 224
Stringify(data) ==
    CASE data = "undefined" -> [threw |-> FALSE, text |-> "undefined"]
      [] data = "object"    -> [threw |-> FALSE, text |-> "{\"name\":\"John\"}"]
      [] data = "circular"  -> [threw |-> TRUE,  text |-> ""]

(***************************************************************************)
(* Per-call resources, lines 160-161                                       *)
(***************************************************************************)
\* variant: one controller shared by all calls
ControllerShared(c) == 1
\* const controller = new AbortController(): one controller per call
ControllerOf(c) == c

\* const timeoutId = setTimeout(...): one timer per call
TimerOf(c) == c

Aborted(c) == aborted[ControllerOf(c)]
Timer(c) == timer[TimerOf(c)]

(***************************************************************************)
(* The catch clause, lines 184-197                                         *)
(***************************************************************************)
\* variant: the catch clause without the AbortError test
ClassifyAbortUnchecked(error) ==
    IF InstanceOfApiError(error) THEN error
    ELSE IF InstanceOfError(error) THEN MkApiError(0, error.message, "null")
    ELSE MkApiError(0, "Unknown Error", "null")

\* variant: the AbortError test ahead of the instanceof tests
ClassifyNameFirst(error) ==
    IF error.name = "AbortError" THEN MkApiError(408, "Request Timeout", "null")
    ELSE IF InstanceOfApiError(error) THEN error
    ELSE IF InstanceOfError(error) THEN MkApiError(0, error.message, "null")
    ELSE MkApiError(0, "Unknown Error", "null")

Classify(error) ==
    IF InstanceOfApiError(error) THEN error
    ELSE IF InstanceOfError(error) THEN
        IF error.name = "AbortError" THEN MkApiError(408, "Request Timeout", "null")
        ELSE MkApiError(0, error.message, "null")
    ELSE MkApiError(0, "Unknown Error", "null")

\* the call settles: its promise takes its final state and its locals go out of scope
Settle(c, result) ==
    /\ outcome' = [outcome EXCEPT ![c] = result]
    /\ pc' = [pc EXCEPT ![c] = "done"]
    /\ req' = [req EXCEPT ![c] = NoRequest]

\* the catch clause receives `error` and the call settles with what it throws
Catch(c, error) ==
    /\ caught' = [caught EXCEPT ![c] = error]
    /\ Settle(c, Rejected(Classify(error)))

(***************************************************************************)
(* ApiClient.request up to `await fetch`, lines 136-166                    *)
(***************************************************************************)
\* calls are started in index order (call c+1 is the next call made after call c)
CanStart(c) == pc[c] = "idle" /\ (IF c = 1 THEN TRUE ELSE pc[c - 1] # "idle")

\* an exception thrown before the try block rejects the async function's promise as is
ThrowRaw(c, error) ==
    /\ pc' = [pc EXCEPT ![c] = "done"]
    /\ outcome' = [outcome EXCEPT ![c] = Rejected(error)]
    /\ UNCHANGED <<req, timer, aborted, elapsed, response, caught>>

request(c, endpoint, method, body) ==
    IF storage = "blocked"
    THEN ThrowRaw(c, SecurityErr)
    ELSE
        /\ req' = [req EXCEPT ![c] =
                     [url |-> BuildUrl(getApiConfig(env).baseURL, endpoint),
                      method |-> method, body |-> body,
                      authorization |-> IF storage = "token" THEN "Bearer token" ELSE ""]]
        /\ aborted' = [aborted EXCEPT ![ControllerOf(c)] = FALSE]
        /\ timer' = [timer EXCEPT ![TimerOf(c)] = "armed"]
        /\ pc' = [pc EXCEPT ![c] = "fetching"]
        /\ UNCHANGED <<elapsed, response, caught, outcome>>

\* post/put/patch serialize the payload before request is entered, lines 204-226
WithBody(c, endpoint, method, data) ==
    IF Stringify(data).threw
    THEN ThrowRaw(c, CircularErr)
    ELSE request(c, endpoint, method, Stringify(data).text)

Get(c) ==
    /\ CanStart(c)
    /\ \E ep \in Endpoints : request(c, ep, "GET", "undefined")
    /\ UNCHANGED <<configVars, proxyVars, env, storage>>

Post(c) ==
    /\ CanStart(c)
    /\ \E ep \in Endpoints, data \in Payloads : WithBody(c, ep, "POST", data)
    /\ UNCHANGED <<configVars, proxyVars, env, storage>>

Put(c) ==
    /\ CanStart(c)
    /\ \E ep \in Endpoints, data \in Payloads : WithBody(c, ep, "PUT", data)
    /\ UNCHANGED <<configVars, proxyVars, env, storage>>

Patch(c) ==
    /\ CanStart(c)
    /\ \E ep \in Endpoints, data \in Payloads : WithBody(c, ep, "PATCH", data)
    /\ UNCHANGED <<configVars, proxyVars, env, storage>>

Delete(c) ==
    /\ CanStart(c)
    /\ \E ep \in Endpoints : request(c, ep, "DELETE", "undefined")
    /\ UNCHANGED <<configVars, proxyVars, env, storage>>

(***************************************************************************)
(* ApiClient.request after `await fetch`, lines 163-197                    *)
(***************************************************************************)
\* variant: no special case for 204
AfterResponseNo204(r) ==
    IF ~Ok(r) THEN "errBody" ELSE "okBody"

\* where request continues once the response status is known, lines 170-183
AfterResponse(r) ==
    IF ~Ok(r) THEN "errBody"
    ELSE IF r.status = 204 THEN "return204"
    ELSE "okBody"

\* fetch resolves: clearTimeout, then the status checks
FetchResponse(c) ==
    /\ pc[c] = "fetching"
    /\ ~Aborted(c)
    /\ \E r \in Responses :
        /\ response' = [response EXCEPT ![c] = r]
        /\ timer' = [timer EXCEPT ![TimerOf(c)] = "cleared"]
        /\ IF AfterResponse(r) = "return204"
           THEN Settle(c, Resolved("{}"))
           ELSE /\ pc' = [pc EXCEPT ![c] = AfterResponse(r)]
                /\ UNCHANGED <<outcome, req>>
    /\ UNCHANGED <<configVars, proxyVars, env, storage, aborted, elapsed, caught>>

\* fetch rejects for a reason other than the abort: the catch clause runs, clearTimeout does not
FetchFail(c) ==
    /\ pc[c] = "fetching"
    /\ ~Aborted(c)
    /\ \E e \in {NetworkError, NonErrorAbort} : Catch(c, e)
    /\ UNCHANGED <<configVars, proxyVars, env, storage, timer, aborted, elapsed, response>>

\* the timer callback of line 161: () => controller.abort()
TimerFire(c) ==
    /\ Timer(c) = "armed"
    /\ timer' = [timer EXCEPT ![TimerOf(c)] = "fired"]
    /\ aborted' = [aborted EXCEPT ![ControllerOf(c)] = TRUE]
    /\ elapsed' = [elapsed EXCEPT ![c] = TRUE]
    /\ UNCHANGED <<configVars, proxyVars, env, storage, pc, req, response, caught, outcome>>

\* fetch rejects with AbortError once its signal is aborted
AbortReject(c) ==
    /\ pc[c] = "fetching"
    /\ Aborted(c)
    /\ Catch(c, AbortError)
    /\ UNCHANGED <<configVars, proxyVars, env, storage, timer, aborted, elapsed, response>>

\* the configured timeout elapses after clearTimeout: no callback runs
DeadlinePass(c) ==
    /\ pc[c] \in {"errBody", "okBody"}
    /\ Timer(c) = "cleared"
    /\ ~elapsed[c]
    /\ elapsed' = [elapsed EXCEPT ![c] = TRUE]
    /\ UNCHANGED <<configVars, proxyVars, env, storage, pc, req, timer, aborted, response, caught, outcome>>

\* await response.json().catch(() => null), then throw new ApiError(...), lines 170-176
ErrBody(c) ==
    /\ pc[c] = "errBody"
    /\ \E data \in {"{\"message\":\"not found\"}", "null"} :
        Catch(c, MkApiError(response[c].status, response[c].statusText, data))
    /\ UNCHANGED <<configVars, proxyVars, env, storage, timer, aborted, elapsed, response>>

\* return await response.json(), line 183: the body is JSON
OkBody(c) ==
    /\ pc[c] = "okBody"
    /\ Settle(c, Resolved("[{\"id\":1}]"))
    /\ UNCHANGED <<configVars, proxyVars, env, storage, timer, aborted, elapsed, response, caught>>

\* return await response.json(), line 183: the body is not JSON
OkBodyFail(c) ==
    /\ pc[c] = "okBody"
    /\ Catch(c, SyntaxErr)
    /\ UNCHANGED <<configVars, proxyVars, env, storage, timer, aborted, elapsed, response>>

ClientIdle ==
    /\ pc = [c \in Calls |-> "idle"]
    /\ req = [c \in Calls |-> NoRequest]
    /\ timer = [c \in Calls |-> "none"]
    /\ aborted = [c \in Calls |-> FALSE]
    /\ elapsed = [c \in Calls |-> FALSE]
    /\ response = [c \in Calls |-> NoResponse]
    /\ caught = [c \in Calls |-> NoError]
    /\ outcome = [c \in Calls |-> Pending]

(***************************************************************************)
(* Proxy rule: getTargetUrl and pathRewrite, lines 4-7 and 21-26           *)
(***************************************************************************)
\* process.env.REACT_APP_API_BASE_URL || 'http://localhost:5000' ("" : unset)
getTargetUrl(baseUrl) == IF baseUrl # "" THEN baseUrl ELSE "http://localhost:5000"

StartsWith(s, prefix) ==
    Len(s) >= Len(prefix) /\ SubSeq(s, 1, Len(prefix)) = prefix

\* app.use('/api', ...): the mount path matches on a path-segment boundary
MountMatches(path) ==
    StartsWith(path, "/api") /\ (Len(path) = 4 \/ StartsWith(path, "/api/"))

\* pathRewrite: { '^/api': '' }
PathRewrite(path) ==
    IF StartsWith(path, "/api") THEN SubSeq(path, 5, Len(path)) ELSE path

\* the URL the proxy forwards a matched request to
ForwardUrl(baseUrl, path) == getTargetUrl(baseUrl) \o PathRewrite(path)

\* the URL a client request reaches: through the development proxy when the
\* client uses relative URLs, directly otherwise
BackendUrl(c) ==
    IF env.nodeEnv = "development"
    THEN ForwardUrl(env.apiBaseUrl, req[c].url)
    ELSE req[c].url

(***************************************************************************)
(* Proxy middleware, lines 16-96                                           *)
(***************************************************************************)
MaxProxyReqs == 2
ProxyReqs == 1..MaxProxyReqs

NoBody == [error |-> "", message |-> ""]
NoProxied == [state |-> "none", path |-> "", forwardedTo |-> "", status |-> 0,
              contentType |-> "", cors |-> FALSE, body |-> NoBody, err |-> "", logged |-> 0]

ProxyPaths == {"/api/users", "/api", "/static/app.js"}
BackendErrors == {"connect ECONNREFUSED 127.0.0.1:5000", "socket hang up"}

IsDev(e) == e.nodeEnv = "development"

\* a request arrives at the dev server; onProxyReq, lines 44-53
ProxyRequest(i) ==
    /\ px[i].state = "none"
    /\ \E path \in ProxyPaths :
        px' = [px EXCEPT ![i] =
                 IF MountMatches(path)
                 THEN [@ EXCEPT !.state = "forwarded", !.path = path,
                                !.forwardedTo = ForwardUrl(proxyEnv.apiBaseUrl, path),
                                !.logged = IF IsDev(proxyEnv) THEN 1 ELSE 0]
                 ELSE [@ EXCEPT !.state = "passed", !.path = path]]
    /\ UNCHANGED <<proxyEnv, clientVars, configVars>>

\* the backend answers; onProxyRes, lines 56-65
onProxyRes(i) ==
    /\ px[i].state = "forwarded"
    /\ \E status \in {200, 404, 500} :
        px' = [px EXCEPT ![i] =
                 [@ EXCEPT !.state = "responded", !.status = status, !.cors = TRUE,
                           !.logged = IF IsDev(proxyEnv) THEN @ + 1 ELSE @]]
    /\ UNCHANGED <<proxyEnv, clientVars, configVars>>

\* variant: the error text in every environment
ErrorMessageLeaky(e, errMessage) == errMessage

\* the message of the error body, lines 37-39
ErrorMessage(e, errMessage) ==
    IF IsDev(e) THEN errMessage ELSE "Internal Server Error"

\* contacting the backend fails; onError, lines 30-41
onError(i) ==
    /\ px[i].state = "forwarded"
    /\ \E err \in BackendErrors :
        px' = [px EXCEPT ![i] =
                 [@ EXCEPT !.state = "failed", !.err = err, !.logged = @ + 1,
                           !.status = 500, !.contentType = "application/json",
                           !.body = [error |-> "Proxy Error",
                                     message |-> ErrorMessage(proxyEnv, err)]]]
    /\ UNCHANGED <<proxyEnv, clientVars, configVars>>

(***************************************************************************)
(* Configuration module, src/unnamed/part_000                              *)
(***************************************************************************)
MaxEnvVars == 4

\* a fallback argument that was not passed
NoFallback == "<undefined>"
\* JavaScript falsiness of an optional string
Falsy(x) == x \in {NoFallback, ""}

\* process.env[key] of a variable that is set
Val(key) == "value-of-" \o key

\* getEnvVar(key, fallback), lines 61-67, under environment e
getEnvVar(e, key, fallback) ==
    IF key \notin e /\ Falsy(fallback)
    THEN [threw |-> TRUE, key |-> key, value |-> ""]
    ELSE [threw |-> FALSE, key |-> key,
          value |-> IF key \in e THEN Val(key)
                    ELSE IF ~Falsy(fallback) THEN fallback ELSE ""]

F(group, field, key, fallback) ==
    [group |-> group, field |-> field, key |-> key, fallback |-> fallback]

\* the getEnvVar calls of the always-present groups, in source order, lines 90-99
RequiredFields == <<
    F("app", "name", "REACT_APP_APP_NAME", "React App"),
    F("app", "version", "REACT_APP_VERSION", "1.0.0"),
    F("app", "environment", "REACT_APP_ENVIRONMENT", "development"),
    F("api", "baseUrl", "REACT_APP_API_BASE_URL", NoFallback),
    F("api", "version", "REACT_APP_API_VERSION", "v1") >>

\* the optional sub-groups, in source order, lines 100-134
ConfigGroups == <<
    [name |-> "auth", triggers |-> {"REACT_APP_AUTH_DOMAIN"}, fields |-> <<
        F("auth", "domain", "REACT_APP_AUTH_DOMAIN", NoFallback),
        F("auth", "clientId", "REACT_APP_CLIENT_ID", NoFallback),
        F("auth", "redirectUri", "REACT_APP_REDIRECT_URI", NoFallback) >>],
    [name |-> "firebase", triggers |-> {"REACT_APP_FIREBASE_API_KEY"}, fields |-> <<
        F("firebase", "apiKey", "REACT_APP_FIREBASE_API_KEY", NoFallback),
        F("firebase", "authDomain", "REACT_APP_FIREBASE_AUTH_DOMAIN", NoFallback),
        F("firebase", "projectId", "REACT_APP_FIREBASE_PROJECT_ID", NoFallback),
        F("firebase", "storageBucket", "REACT_APP_FIREBASE_STORAGE_BUCKET", NoFallback),
        F("firebase", "messagingSenderId", "REACT_APP_FIREBASE_MESSAGING_SENDER_ID", NoFallback),
        F("firebase", "appId", "REACT_APP_FIREBASE_APP_ID", NoFallback) >>],
    [name |-> "analytics",
     triggers |-> {"REACT_APP_GOOGLE_ANALYTICS_ID", "REACT_APP_MIXPANEL_TOKEN"}, fields |-> <<
        F("analytics", "googleAnalyticsId", "REACT_APP_GOOGLE_ANALYTICS_ID", ""),
        F("analytics", "mixpanelToken", "REACT_APP_MIXPANEL_TOKEN", "") >>],
    [name |-> "assets",
     triggers |-> {"REACT_APP_CDN_URL", "REACT_APP_ASSETS_URL"}, fields |-> <<
        F("assets", "cdnUrl", "REACT_APP_CDN_URL", ""),
        F("assets", "assetsUrl", "REACT_APP_ASSETS_URL", "") >>],
    [name |-> "social",
     triggers |-> {"REACT_APP_FACEBOOK_APP_ID", "REACT_APP_GITHUB_CLIENT_ID",
                   "REACT_APP_LINKEDIN_CLIENT_ID"}, fields |-> <<
        F("social", "facebookAppId", "REACT_APP_FACEBOOK_APP_ID", ""),
        F("social", "githubClientId", "REACT_APP_GITHUB_CLIENT_ID", ""),
        F("social", "linkedinClientId", "REACT_APP_LINKEDIN_CLIENT_ID", "") >>],
    [name |-> "monitoring",
     triggers |-> {"REACT_APP_SENTRY_DSN", "REACT_APP_HOTJAR_ID"}, fields |-> <<
        F("monitoring", "sentryDsn", "REACT_APP_SENTRY_DSN", ""),
        F("monitoring", "hotjarId", "REACT_APP_HOTJAR_ID", "") >>] >>

GroupIndex == 1..Len(ConfigGroups)
Range(seq) == {seq[i] : i \in 1..Len(seq)}

\* the variables the environment snapshot may set
EnvUniverse ==
    {"REACT_APP_API_BASE_URL"} \cup
    UNION {{f.key : f \in Range(ConfigGroups[i].fields)} : i \in GroupIndex}

\* the condition of a sub-group's conditional expression
Triggered(e, g) == g.triggers \cap e # {}

RECURSIVE GroupCalls(_, _)
\* the getEnvVar calls of sub-groups i.. that environment e makes, in order
GroupCalls(e, i) ==
    IF i > Len(ConfigGroups) THEN <<>>
    ELSE (IF Triggered(e, ConfigGroups[i]) THEN ConfigGroups[i].fields ELSE <<>>)
         \o GroupCalls(e, i + 1)

\* every getEnvVar call evaluating the config object literal makes, in order
EnvCalls(e) == RequiredFields \o GroupCalls(e, 1)

Throwing(e) ==
    {i \in 1..Len(EnvCalls(e)) :
        getEnvVar(e, EnvCalls(e)[i].key, EnvCalls(e)[i].fallback).threw}

\* the first call that throws ends the evaluation
FirstThrow(e) == CHOOSE i \in Throwing(e) : \A j \in Throwing(e) : i <= j

FieldValues(e, fields) ==
    [n \in {f.field : f \in Range(fields)} |->
        LET f == CHOOSE x \in Range(fields) : x.field = n
        IN  getEnvVar(e, f.key, f.fallback).value]

\* the config object, lines 89-139 (the getEnvVar-built groups)
BuildConfig(e) ==
    [app |-> FieldValues(e, SubSeq(RequiredFields, 1, 3)),
     api |-> FieldValues(e, SubSeq(RequiredFields, 4, 5)),
     groups |-> [n \in {ConfigGroups[i].name : i \in GroupIndex} |->
        LET g == CHOOSE x \in Range(ConfigGroups) : x.name = n
        IN  IF Triggered(e, g)
            THEN [defined |-> TRUE, values |-> FieldValues(e, g.fields)]
            ELSE [defined |-> FALSE, values |-> FieldValues({}, <<>>)]]]

NoConfig == [app |-> <<>>, api |-> <<>>, groups |-> <<>>]
NotStarted == [stage |-> "none", failedIn |-> "", message |-> "", missing |-> <<>>]

\* evaluating the module: the config object literal is built at import time
LoadModule ==
    /\ module = "unloaded"
    /\ IF Throwing(procEnv) # {}
       THEN /\ module' = "failed"
            /\ config' = NoConfig
            /\ startup' = [stage |-> "failed", failedIn |-> "getEnvVar",
                           message |-> "Environment variable "
                                       \o EnvCalls(procEnv)[FirstThrow(procEnv)].key
                                       \o " is required but not set",
                           missing |-> <<>>]
       ELSE /\ module' = "loaded"
            /\ config' = BuildConfig(procEnv)
            /\ startup' = [stage |-> "loaded", failedIn |-> "", message |-> "", missing |-> <<>>]
    /\ UNCHANGED <<procEnv, clientVars, proxyVars>>

requiredVars == <<"REACT_APP_API_BASE_URL">>

\* validateConfig, lines 151-164: callable once the module that exports it has loaded
validateConfig ==
    /\ module = "loaded"
    /\ startup.stage = "loaded"
    /\ LET missingVars == SelectSeq(requiredVars, LAMBDA v : v \notin procEnv)
       IN  IF Len(missingVars) > 0
           THEN startup' = [stage |-> "failed", failedIn |-> "validateConfig",
                            message |-> "Missing required environment variables",
                            missing |-> missingVars]
           ELSE startup' = [stage |-> "validated", failedIn |-> "", message |-> "",
                            missing |-> <<>>]
    /\ UNCHANGED <<procEnv, module, config, clientVars, proxyVars>>

(***************************************************************************)
(* Specification of the client                                             *)
(***************************************************************************)
ConfigIdle ==
    /\ procEnv = {}
    /\ module = "unloaded"
    /\ config = NoConfig
    /\ startup = NotStarted

ProxyIdle ==
    /\ proxyEnv = [nodeEnv |-> "development", apiBaseUrl |-> ""]
    /\ px = [i \in ProxyReqs |-> NoProxied]

Init ==
    /\ env \in ClientEnvs
    /\ storage \in {"empty", "token", "blocked"}
    /\ ClientIdle
    /\ ConfigIdle
    /\ ProxyIdle

Next ==
    \E c \in Calls :
        \/ Get(c) \/ Post(c) \/ Put(c) \/ Patch(c) \/ Delete(c)
        \/ FetchResponse(c) \/ FetchFail(c) \/ TimerFire(c) \/ AbortReject(c)
        \/ DeadlinePass(c) \/ ErrBody(c) \/ OkBody(c) \/ OkBodyFail(c)

Spec == Init /\ [][Next]_vars

\* the rejection of an aborted fetch is a queued job of the event loop: it runs
LiveSpec == Spec /\ \A c \in Calls : WF_vars(AbortReject(c))

(***************************************************************************)
(* Specification of the configuration start-up                             *)
(***************************************************************************)
InitConfig ==
    /\ procEnv \in {e \in SUBSET EnvUniverse : Cardinality(e) <= MaxEnvVars}
    /\ module = "unloaded"
    /\ config = NoConfig
    /\ startup = NotStarted
    /\ env = DevEnv
    /\ storage = "empty"
    /\ ClientIdle
    /\ ProxyIdle

NextConfig == LoadModule \/ validateConfig

SpecConfig == InitConfig /\ [][NextConfig]_vars

(***************************************************************************)
(* Specification of the proxy                                              *)
(***************************************************************************)
InitProxy ==
    /\ proxyEnv \in [nodeEnv : {"development", "production", "test"},
                     apiBaseUrl : {"", "http://localhost:5000", "http://backend:8080"}]
    /\ px = [i \in ProxyReqs |-> NoProxied]
    /\ env = DevEnv
    /\ storage = "empty"
    /\ ClientIdle
    /\ ConfigIdle

NextProxy == \E i \in ProxyReqs : ProxyRequest(i) \/ onProxyRes(i) \/ onError(i)

SpecProxy == InitProxy /\ [][NextProxy]_vars

(***************************************************************************)
(* Claims about the client                                                 *)
(***************************************************************************)
Timeout408 == MkApiError(408, "Request Timeout", "null")

\* C1 (as stated): a call that settles after its configured timeout has elapsed
\* settles as ApiError{408, "Request Timeout", null} and in no other way.
C1_SettlesAfterDeadlineOnlyAs408 ==
    [][\A c \in Calls :
          (elapsed[c] /\ pc[c] # "done" /\ pc'[c] = "done")
              => outcome'[c] = Rejected(Timeout408)]_vars

\* C1 (amended): when the timeout elapses while the call still awaits the fetch
\* response, the timer has fired and aborted the request, the call can
\* settle only as ApiError{408, "Request Timeout", null}, and it does settle so.
C1_TimeoutWhileAwaitingFetch ==
    /\ \A c \in Calls :
          (pc[c] = "fetching" /\ elapsed[c])
              ~> (pc[c] = "done" /\ outcome[c] = Rejected(Timeout408))
    /\ [][\A c \in Calls :
            (pc[c] = "fetching" /\ elapsed[c])
                => /\ Timer(c) = "fired"
                   /\ Aborted(c)
                   /\ \/ pc'[c] = "fetching" /\ outcome'[c] = Pending
                      \/ pc'[c] = "done" /\ outcome'[c] = Rejected(Timeout408)]_vars

C1_Witness ==
    \E c \in Calls :
        /\ pc[c] = "done" /\ elapsed[c] /\ Timer(c) = "fired"
        /\ response[c] = NoResponse
        /\ caught[c] = AbortError
        /\ outcome[c] = Rejected(Timeout408)

\* C2: no call has settled while the timer armed for it is still armed.
C2_SettledImpliesTimerDisarmed ==
    \A c \in Calls : pc[c] = "done" => Timer(c) # "armed"

\* C3: every failure that leaves get/post/put/patch/delete is an ApiError.
C3_FailuresAreApiErrors ==
    \A c \in Calls :
        outcome[c].kind = "rejected" => InstanceOfApiError(outcome[c].error)

\* C4: what the catch clause receives is classified in priority order:
\* ApiError unchanged, then abort error as 408, then Error as {0, message},
\* then anything else as {0, "Unknown Error"}.
C4_ClassificationOrder ==
    \A c \in Calls :
        (pc[c] = "done" /\ caught[c] # NoError) =>
            LET e == caught[c]
                thrown == outcome[c].error
            IN  /\ outcome[c].kind = "rejected"
                /\ e.cls = "ApiError" => thrown = e
                /\ (e.cls # "ApiError" /\ InstanceOfError(e) /\ e.name = "AbortError")
                       => thrown = MkApiError(408, "Request Timeout", "null")
                /\ (e.cls # "ApiError" /\ InstanceOfError(e) /\ e.name # "AbortError")
                       => thrown = MkApiError(0, e.message, "null")
                /\ ~InstanceOfError(e) => thrown = MkApiError(0, "Unknown Error", "null")

C4_Witness ==
    \E c, d \in Calls :
        /\ pc[c] = "done" /\ caught[c] = NonErrorAbort
        /\ pc[d] = "done" /\ InstanceOfApiError(caught[d])

\* C7: api.get('/api/users') reaches the documented backend URL in the
\* documented development and production environments.
C7_DocumentedBackendUrl ==
    \A c \in Calls :
        req[c].method = "GET" =>
            BackendUrl(c) = IF env = DevEnv THEN "http://localhost:5000/users"
                            ELSE "https://api.example.com/api/users"

\* the state of everything call c owns
CallState(c) ==
    <<pc[c], req[c], Timer(c), Aborted(c), elapsed[c], response[c], caught[c], outcome[c]>>

\* C8: a step of one call leaves every other call untouched, and a call is
\* aborted only by the firing of its own timer.
C8_CallsAreIndependent ==
    [][/\ Cardinality({c \in Calls : CallState(c)' # CallState(c)}) <= 1
       /\ \A c \in Calls :
             (~Aborted(c) /\ Aborted(c)')
                 => Timer(c) = "armed" /\ Timer(c)' = "fired"]_vars

C8_Witness ==
    \E c, d \in Calls :
        /\ c # d
        /\ pc[c] = "done" /\ outcome[c] = Rejected(Timeout408) /\ Aborted(c)
        /\ pc[d] = "fetching" /\ Timer(d) = "armed" /\ ~Aborted(d)

\* C10 (as stated): once a response has arrived the call resolves or fails
\* with that response's status; status 0 occurs only without a response.
C10_StatusZeroOnlyWithoutResponse ==
    \A c \in Calls :
        (pc[c] = "done" /\ response[c] # NoResponse) =>
            \/ outcome[c].kind = "resolved"
            \/ outcome[c].error.status = response[c].status

\* C10 (amended): status 0 occurs only without a response or when decoding the
\* body of a successful non-204 response failed; a non-success response fails
\* with its own status and a 204 resolves to the empty object.
C10_StatusZeroCases ==
    \A c \in Calls :
        pc[c] = "done" =>
            /\ (outcome[c].kind = "rejected" /\ outcome[c].error.status = 0)
                  => \/ response[c] = NoResponse
                     \/ /\ Ok(response[c]) /\ response[c].status # 204
                        /\ caught[c] = SyntaxErr
            /\ (response[c] # NoResponse /\ ~Ok(response[c]))
                  => /\ outcome[c].kind = "rejected"
                     /\ outcome[c].error.status = response[c].status
                     /\ outcome[c].error.statusText = response[c].statusText
            /\ response[c].status = 204 => outcome[c] = Resolved("{}")

C10_Witness ==
    \E c \in Calls :
        /\ pc[c] = "done" /\ response[c].status = 200
        /\ outcome[c] = Rejected(MkApiError(0, SyntaxErr.message, "null"))

(***************************************************************************)
(* Claims about the configuration module                                   *)
(***************************************************************************)
OnlyGroupTriggered(i) ==
    /\ "REACT_APP_API_BASE_URL" \in procEnv
    /\ Triggered(procEnv, ConfigGroups[i])
    /\ \A j \in GroupIndex \ {i} : ~Triggered(procEnv, ConfigGroups[j])

\* C5: with the required variable set and one optional sub-group triggered,
\* construction succeeds and the sub-group is defined, each field whose
\* variable is unset being the empty string; an untriggered sub-group is
\* undefined.
C5_TriggeredGroupDefaultsToEmpty ==
    module # "unloaded" =>
        \A i \in GroupIndex :
            LET g == ConfigGroups[i] IN
            /\ OnlyGroupTriggered(i) =>
                  /\ module = "loaded"
                  /\ config.groups[g.name].defined
                  /\ \A f \in Range(g.fields) :
                        f.key \notin procEnv => config.groups[g.name].values[f.field] = ""
            /\ (module = "loaded" /\ ~Triggered(procEnv, g))
                  => ~config.groups[g.name].defined

\* C6: with REACT_APP_API_BASE_URL unset, start-up fails in validateConfig
\* with the list of missing variables [REACT_APP_API_BASE_URL].
C6_ValidationReportsMissingBaseUrl ==
    ("REACT_APP_API_BASE_URL" \notin procEnv /\ module # "unloaded") =>
        /\ module = "loaded"
        /\ startup.stage = "failed" =>
              /\ startup.failedIn = "validateConfig"
              /\ startup.missing = <<"REACT_APP_API_BASE_URL">>

(***************************************************************************)
(* Claims about the proxy                                                  *)
(***************************************************************************)
\* C9: every failure to contact the backend ends in a response with status
\* 500 and JSON body {error: "Proxy Error", message}, the message being the
\* error text when NODE_ENV is development and "Internal Server Error"
\* otherwise.
C9_ProxyErrorResponse ==
    \A i \in ProxyReqs :
        px[i].err # "" =>
            /\ px[i].state = "failed"
            /\ px[i].status = 500
            /\ px[i].contentType = "application/json"
            /\ px[i].body.error = "Proxy Error"
            /\ proxyEnv.nodeEnv = "development" => px[i].body.message = px[i].err
            /\ proxyEnv.nodeEnv # "development"
                  => px[i].body.message = "Internal Server Error"

C9_Witness ==
    \E i \in ProxyReqs :
        /\ px[i].state = "failed" /\ px[i].err = "socket hang up"
        /\ proxyEnv.nodeEnv = "production"
        /\ px[i].body = [error |-> "Proxy Error", message |-> "Internal Server Error"]

====
